---- MODULE Spec2Model ----
(***************************************************************************)
(* A model of SharedSlots<T> (src/src/shared_slots.rs): a fixed array of   *)
(* slots, each behind its own mutex, and a free-list head next_free behind *)
(* a mutex of its own.  Threads call reserve, get, take and insert, use    *)
(* the guards they obtain (Reserved::insert, Occupied::take, deref_mut)    *)
(* and drop them.  Every blocking lock acquisition is a step of its own;   *)
(* the code between two acquisitions runs while the thread holds the locks *)
(* it touches and is folded into the step that acquired them.              *)
(*                                                                         *)
(* The module also models Window<N> (src/src/window.rs), the bitmap that   *)
(* tells indices seen before from new ones, and the varint encoding of     *)
(* src/src/varint.rs.  Each of the three has a specification of its own;   *)
(* the variables of the other two stay as they are initially.              *)
(***************************************************************************)
EXTENDS Integers, Naturals, Sequences, FiniteSets, TLC

\* ---------------------------------------------------------------- bounds
MaxCapacity == 2
NumThreads == 2
MaxItem == 2
\* Window<N> for N in 1 .. MaxWindow, with indices in the words
\* 0 .. 2 * MaxWindow
MaxWindow == 4
\* so many distinct indices are passed to Window::insert
MaxInserted == 3

\* usize::MAX, the link Occupied::take leaves in the slot.  Only its being
\* out of range of every pool is ever used; it is written here as the
\* largest integer the model checker represents.
USIZE_MAX == 2147483647

Threads == 1 .. NumThreads
NoThread == 0
Items == 1 .. MaxItem

\* Option<_> values returned by the public operations, () for drop
None == <<"None">>
Some(x) == <<"Some", x>>
Unit == <<"()">>
\* ret when the last step fixed the value of no call
NoRet == [thread |-> NoThread, op |-> "none", arg |-> Unit, val |-> Unit]
\* call o of thread t with argument a gives r
Returns(t, o, a, r) == [thread |-> t, op |-> o, arg |-> a, val |-> r]

\* enum Slot<T>
Occupied(item) == [tag |-> "Occupied", item |-> item]
Vacant(next) == [tag |-> "Vacant", next |-> next]
IsVacant(s) == s.tag = "Vacant"
IsOccupied(s) == s.tag = "Occupied"

VARIABLES
    capacity,   \* slots.len(), fixed by new(capacity)
    slots,      \* slots[k]: the Slot<T> inside the k-th mutex
    slotLock,   \* slotLock[k]: the thread that holds mutex k, or NoThread
    next_free,  \* the usize inside the next_free mutex
    nfLock,     \* the thread that holds the next_free mutex, or NoThread
    pc,         \* pc[t]: where thread t stands
    op,         \* op[t]: the function thread t is inside
    key,        \* key[t]: the key of the SlotRef the call works on
    item,       \* item[t]: the argument of SharedSlots::insert, until stored
    dropKind,   \* dropKind[t]: what the SlotRef being dropped was wrapped in
    guards,     \* guards[t][k]: the live guard thread t holds on key k
    ret,        \* the call whose return value the last step fixed, and the
                \* value; a call that ends with the drop of a SlotRef hands
                \* the value over once that drop is through (pc = "idle")
    panicked,   \* panicked[t]: thread t ran into unreachable!()
    \* what the run so far has been (read by no action):
    outstanding, \* outstanding[k]: reserve has returned k, and since then no
                 \* Reserved guard for k was dropped and no value taken from k
    fillOnly,    \* the run is that of tests::threaded: no thread has done more
                 \* than reserve once, insert and drop the Occupied guard
    called,      \* while fillOnly: the threads that have called reserve
    lastReleased \* Some(k): the release of key k (a take of k, the drop of a
                 \* Reserved guard for k) has ended and no reserve has read
                 \* next_free since; None otherwise

poolVars == <<capacity, slots, slotLock, next_free, nfLock, pc, op, key, item,
              dropKind, guards, ret, panicked, outstanding, fillOnly, called,
              lastReleased>>

VARIABLES
    N,           \* the const parameter of Window<N>: the number of words
    map,         \* map[w], w in 0 .. N - 1: the bits set in word w, as the
                 \* set of their positions 0 .. usize::BITS - 1
    first_index, \* the index that bit 0 of word 0 stands for
    winRet,      \* the last call on the window, its argument and outcome
    \* what the run so far has been (read only to bound the run):
    inserted,    \* the indices passed to Window::insert so far
    increasing   \* each of them was greater than all before it

windowVars == <<N, map, first_index, winRet, inserted, increasing>>

VARIABLES
    val,         \* the u64 to encode, as its 8 big-endian bytes
    buf,         \* the 9-byte buffer handed to encode_varint
    len,         \* what encode_varint returned, 0 before the call
    decoded      \* the outcome of decoding buf[..len]

varintVars == <<val, buf, len, decoded>>

\* the Window and the varint buffers, which no operation of the pool touches
elsewhere == <<windowVars, varintVars>>

vars == <<poolVars, windowVars, varintVars>>

\* ================================================================ Window
\* usize::BITS of the 64-bit targets
WORD_BITS == 64

\* the indices handed to the window: the first and the last bit of each of
\* the words 0 .. 2 * MaxWindow
Offsets == {0, WORD_BITS - 1}
Indices == {w * WORD_BITS + o : w \in 0 .. (2 * MaxWindow), o \in Offsets}

\* winRet before any call, and after a call
NoCall == [op |-> "none", arg |-> 0, val |-> FALSE, panic |-> FALSE]
Outcome(o, i, v, p) == [op |-> o, arg |-> i, val |-> v, panic |-> p]

\* usize::saturating_sub
SaturatingSub(a, b) == IF a >= b THEN a - b ELSE 0

\* [usize; N]::copy_within(src.., 0): the words src .. N - 1 of m are copied
\* to 0 .. N - 1 - src
CopyWithin(m, src) ==
    [w \in 0 .. (N - 1) |-> IF w < N - src THEN m[w + src] ELSE m[w]]

\* m[from..].fill(0)
Fill(m, from) == [w \in 0 .. (N - 1) |-> IF w >= from THEN {} ELSE m[w]]

\* Window::new: no bit set, first_index 0
Window_new == [w \in 0 .. (N - 1) |-> {}]

\* Window::can_insert(index), lines 49-60
can_insert(index) ==
    IF index < first_index THEN FALSE
    ELSE LET word_idx == (index - first_index) \div WORD_BITS
             word_offset == (index - first_index) % WORD_BITS
         IN  IF word_idx >= N THEN TRUE
             ELSE word_offset \notin map[word_idx]

\* Window::insert, lines 82-86, on the words m: the indexing of word
\* word_idx panics when it is out of bounds; else the bit is set and the
\* value is whether it was not set before
SetBit(m, fi, word_idx, word_offset) ==
    IF word_idx >= N
    THEN [map |-> m, first_index |-> fi, val |-> FALSE, panic |-> TRUE]
    ELSE [map |-> [m EXCEPT ![word_idx] = @ \cup {word_offset}],
          first_index |-> fi,
          val |-> word_offset \notin m[word_idx],
          panic |-> FALSE]

\* Window::insert(index), lines 67-87: the words and first_index it leaves
\* and the value it returns, or that it panics
insert(index) ==
    IF index < first_index
    THEN [map |-> map, first_index |-> first_index, val |-> FALSE,
          panic |-> FALSE]
    ELSE LET word_idx == (index - first_index) \div WORD_BITS
             word_offset == (index - first_index) % WORD_BITS
         IN  IF word_idx >= N
             THEN LET gap == word_idx - N
                      keep == SaturatingSub(N \div 2 + 1, gap)
                  IN  SetBit(Fill(CopyWithin(map, N - keep), keep),
                             first_index + (gap + N \div 2) * WORD_BITS,
                             N \div 2 + 1, word_offset)
             ELSE SetBit(map, first_index, word_idx, word_offset)

\* a window that is not used: Window::<3>::new()
WindowUnused ==
    /\ N = 3
    /\ map = Window_new
    /\ first_index = 0
    /\ winRet = NoCall
    /\ inserted = {}
    /\ increasing = TRUE

\* Window::<N>::new() for the sizes 1 .. MaxWindow
InitWindowVars ==
    /\ N \in 1 .. MaxWindow
    /\ map = Window_new
    /\ first_index = 0
    /\ winRet = NoCall
    /\ inserted = {}
    /\ increasing = TRUE

\* ================================================================ varint
\* u64::BITS
U64_BITS == 64

\* a u64 is written as its 8 big-endian bytes (u64::to_be_bytes), byte 1
\* the most significant; the u64 0, and the buffer [0; 9] of test_roundtrip
ZeroBytes == [j \in 1 .. 8 |-> 0]
EmptyBuf == [j \in 1 .. 9 |-> 0]

\* the u64 with bit b alone set, and the u64 with the b lowest bits set
OneBit(b) ==
    [j \in 1 .. 8 |-> IF (8 - j) = b \div 8 THEN 2 ^ (b % 8) ELSE 0]
LowOnes(b) ==
    [j \in 1 .. 8 |->
        LET lo == 8 * (8 - j)
        IN  IF b >= lo + 8 THEN 255
            ELSE IF b <= lo THEN 0
            ELSE 2 ^ (b - lo) - 1]

\* the values encoded: 0, the least and the greatest value of every bit
\* length, and the values of the tests read_knowns and roundtrip_failures
\* (456 and 33108953738072179)
Values ==
    {ZeroBytes}
        \cup {OneBit(b) : b \in 0 .. (U64_BITS - 1)}
        \cup {LowOnes(b) : b \in 1 .. U64_BITS}
        \cup {<<0, 0, 0, 0, 0, 0, 1, 200>>,
              <<0, 117, 160, 107, 2, 113, 80, 115>>}

\* bit k of the byte x; x & y and x | y on bytes
Bit(x, k) == (x \div (2 ^ k)) % 2
RECURSIVE AndFrom(_, _, _)
AndFrom(x, y, k) ==
    IF k = 8 THEN 0
    ELSE Bit(x, k) * Bit(y, k) * (2 ^ k) + AndFrom(x, y, k + 1)
BitAnd(x, y) == AndFrom(x, y, 0)
RECURSIVE OrFrom(_, _, _)
OrFrom(x, y, k) ==
    IF k = 8 THEN 0
    ELSE (IF Bit(x, k) + Bit(y, k) > 0 THEN 2 ^ k ELSE 0)
             + OrFrom(x, y, k + 1)
BitOr(x, y) == OrFrom(x, y, 0)

\* u8::leading_zeros and u8::leading_ones
LeadingZeros8(x) ==
    IF x = 0 THEN 8
    ELSE CHOOSE n \in 0 .. 7 : 2 ^ (7 - n) <= x /\ x < 2 ^ (8 - n)
leading_ones(x) == LeadingZeros8(255 - x)

\* u64::leading_zeros, from byte j on
RECURSIVE LeadingZerosFrom(_, _)
LeadingZerosFrom(v, j) ==
    IF j > 8 THEN 0
    ELSE IF v[j] = 0 THEN 8 + LeadingZerosFrom(v, j + 1)
    ELSE LeadingZeros8(v[j])
leading_zeros(v) == LeadingZerosFrom(v, 1)

\* ceil_div, lines 56-58
ceil_div(n, d) == (n + d - 1) \div d

\* decode_varint_len, lines 62-64
decode_varint_len(msb) == leading_ones(msb) + 1

\* encode_varint(v, b), lines 100-122, for a buffer b of 9 bytes: the
\* buffer it leaves and the length it returns
encode_varint(v, b) ==
    LET bitlen == U64_BITS - leading_zeros(v)
        l == ceil_div(bitlen, 7)
    IN  IF l <= 1
        THEN [buf |-> [b EXCEPT ![1] = v[8]], len |-> 1]
        ELSE IF l <= 8
        THEN LET len_prefix == (255 * (2 ^ (9 - l))) % 256
                 msb_mask == 255 \div (2 ^ l)
                 copied == [j \in 1 .. 9 |->
                               IF j <= l THEN v[8 - l + j] ELSE b[j]]
             IN  [buf |-> [copied EXCEPT
                              ![1] = BitOr(BitAnd(@, msb_mask), len_prefix)],
                  len |-> l]
        ELSE [buf |-> [j \in 1 .. 9 |-> IF j = 1 THEN 255 ELSE v[j - 1]],
              len |-> 9]

\* the outcome of a decoding function: its name (marked when decode_varint
\* gave None), whether it panicked, and the value it gave
Decoded(f, p, v) == [fn |-> f, panic |-> p, val |-> v]
NotYet == Decoded("none", FALSE, <<>>)

\* the length of the local array buf of decode_varint_unchecked (line 76)
DECODE_BUF_LEN == 8

\* decode_varint_unchecked(src), lines 70-81: a length outside 1..=9 is
\* unreachable!(); 8 - len overflows for len = 9 (a panic with overflow
\* checks, and without them the slice buf[offset..] is out of range and
\* panics); buf[1..].try_into().unwrap() panics unless buf[1..] has the 8
\* bytes of a u64
decode_varint_unchecked(src) ==
    LET l == Len(src)
        offset == DECODE_BUF_LEN - l
    IN  IF l \notin 1 .. 9 \/ offset < 0
        THEN [panic |-> TRUE, val |-> <<>>]
        ELSE LET copied == [j \in 1 .. DECODE_BUF_LEN |->
                               IF j > offset THEN src[j - offset] ELSE 0]
                 masked == [copied EXCEPT
                               ![offset + 1] = BitAnd(@, 255 \div (2 ^ l))]
                 tail == SubSeq(masked, 2, DECODE_BUF_LEN)
             IN  IF Len(tail) = 8
                 THEN [panic |-> FALSE, val |-> tail]
                 ELSE [panic |-> TRUE, val |-> <<>>]

\* decode_varint(src), lines 84-87: None (some = FALSE) when src is empty or
\* shorter than its first byte says
decode_varint(src) ==
    IF Len(src) = 0 THEN [some |-> FALSE, panic |-> FALSE, val |-> <<>>]
    ELSE LET l == decode_varint_len(src[1])
         IN  IF l > Len(src)
             THEN [some |-> FALSE, panic |-> FALSE, val |-> <<>>]
             ELSE LET r == decode_varint_unchecked(SubSeq(src, 1, l))
                  IN  [some |-> ~r.panic, panic |-> r.panic, val |-> r.val]

\* the buffers before any call
VarintUnused ==
    /\ val = ZeroBytes
    /\ buf = EmptyBuf
    /\ len = 0
    /\ decoded = NotYet

\* test_roundtrip(val) for the values of Values
InitVarintVars ==
    /\ val \in Values
    /\ buf = EmptyBuf
    /\ len = 0
    /\ decoded = NotYet

\* ================================================================== pool
Keys == 0 .. (capacity - 1)

\* a pool whose slots link to the slot after the next
New_SkipsOne(cap) == [i \in 0 .. (cap - 1) |-> Vacant(i + 2)]
\* SharedSlots::new: slot i is Vacant { next: i + 1 }, next_free is 0
New(cap) == [i \in 0 .. (cap - 1) |-> Vacant(i + 1)]

InitPool ==
    /\ capacity \in 0 .. MaxCapacity
    /\ slots = New(capacity)
    /\ slotLock = [k \in 0 .. (capacity - 1) |-> NoThread]
    /\ next_free = 0
    /\ nfLock = NoThread
    /\ pc = [t \in Threads |-> "idle"]
    /\ op = [t \in Threads |-> "none"]
    /\ key = [t \in Threads |-> 0]
    /\ item = [t \in Threads |-> 0]
    /\ dropKind = [t \in Threads |-> "none"]
    /\ guards = [t \in Threads |-> [k \in 0 .. (capacity - 1) |-> "none"]]
    /\ ret = NoRet
    /\ panicked = [t \in Threads |-> FALSE]
    /\ outstanding = [k \in 0 .. (capacity - 1) |-> FALSE]
    /\ fillOnly = TRUE
    /\ called = {}
    /\ lastReleased = None

\* the pool in use, the window and the varint buffers unused
Init == InitPool /\ WindowUnused /\ VarintUnused

\* ------------------------------------------------------------- helpers
\* Vec::get: Some for an index in range
InRange(k) == k \in Keys

\* Mutex::lock on slot k returns once no thread holds the mutex
CanLock_Always(k) == TRUE
CanLock(k) == slotLock[k] = NoThread

\* reserve, lines 119-122: the head after slot k is popped is its next link
Pop_KeepsHead(k) == k
Pop(k) == slots[k].next

\* a thread never asks for the lock of a key whose guard it holds itself
MayRequest(t, k) == k \in Keys => guards[t][k] = "none"

\* the run stays that of tests::threaded, leaves it, or thread t joins it
StayFill == UNCHANGED <<fillOnly, called>>
LeaveFill == fillOnly' = FALSE /\ called' = {}
JoinFill(t) ==
    IF fillOnly /\ t \notin called
    THEN fillOnly' = TRUE /\ called' = called \cup {t}
    ELSE LeaveFill
Release(k) == outstanding' = [outstanding EXCEPT ![k] = FALSE]

\* the end of call o(a) of thread t with value r: the thread's locals are gone
Return(t, o, a, r) ==
    /\ pc' = [pc EXCEPT ![t] = "idle"]
    /\ op' = [op EXCEPT ![t] = "none"]
    /\ key' = [key EXCEPT ![t] = 0]
    /\ item' = [item EXCEPT ![t] = 0]
    /\ dropKind' = [dropKind EXCEPT ![t] = "none"]
    /\ ret' = Returns(t, o, a, r)

\* SlotRef::drop, line 26 up to the call of next_free.lock():
\* MutexGuard::unlocked releases the mutex of slot k
BeginDrop(t, k, kind, r) ==
    /\ slotLock' = [slotLock EXCEPT ![k] = NoThread]
    /\ pc' = [pc EXCEPT ![t] = "drop_lock_nf"]
    /\ op' = [op EXCEPT ![t] = "drop"]
    /\ key' = [key EXCEPT ![t] = k]
    /\ item' = [item EXCEPT ![t] = 0]
    /\ dropKind' = [dropKind EXCEPT ![t] = kind]
    /\ ret' = r

\* ------------------------------------------------------------- reserve
\* a call of reserve(): the thread is at next_free.lock()
ReserveCall(t) ==
    /\ pc[t] = "idle"
    /\ pc' = [pc EXCEPT ![t] = "reserve_lock_nf"]
    /\ op' = [op EXCEPT ![t] = "reserve"]
    /\ ret' = NoRet
    /\ JoinFill(t)
    /\ UNCHANGED lastReleased
    /\ UNCHANGED elsewhere
    /\ UNCHANGED <<capacity, slots, slotLock, next_free, nfLock, key, item,
                   dropKind, guards, panicked, outstanding>>

\* a call of SharedSlots::insert(v): reserve()?.insert(v).key()
InsertCall(t, v) ==
    /\ pc[t] = "idle"
    /\ pc' = [pc EXCEPT ![t] = "reserve_lock_nf"]
    /\ op' = [op EXCEPT ![t] = "insert"]
    /\ item' = [item EXCEPT ![t] = v]
    /\ ret' = NoRet
    /\ JoinFill(t)
    /\ UNCHANGED lastReleased
    /\ UNCHANGED elsewhere
    /\ UNCHANGED <<capacity, slots, slotLock, next_free, nfLock, key,
                   dropKind, guards, panicked, outstanding>>

\* reserve that returns None from slots.get(key)? with next_free still locked
ReserveLockNf_KeepsLockOnNone(t) ==
    /\ pc[t] = "reserve_lock_nf"
    /\ nfLock = NoThread
    /\ IF InRange(next_free)
       THEN /\ nfLock' = t
            /\ pc' = [pc EXCEPT ![t] = "reserve_lock_slot"]
            /\ key' = [key EXCEPT ![t] = next_free]
            /\ ret' = NoRet
            /\ UNCHANGED <<op, item, dropKind>>
       ELSE /\ Return(t, op[t], IF op[t] = "insert" THEN item[t] ELSE Unit,
                      None)
            /\ nfLock' = t
    /\ StayFill
    /\ lastReleased' = None
    /\ UNCHANGED elsewhere
    /\ UNCHANGED <<capacity, slots, slotLock, next_free, guards, panicked,
                   outstanding>>

\* reserve, lines 108-112: lock next_free, read the key, slots.get(key)?
ReserveLockNf(t) ==
    /\ pc[t] = "reserve_lock_nf"
    /\ nfLock = NoThread
    /\ IF InRange(next_free)
       THEN /\ nfLock' = t
            /\ pc' = [pc EXCEPT ![t] = "reserve_lock_slot"]
            /\ key' = [key EXCEPT ![t] = next_free]
            /\ ret' = NoRet
            /\ UNCHANGED <<op, item, dropKind>>
       ELSE /\ Return(t, op[t], IF op[t] = "insert" THEN item[t] ELSE Unit,
                      None)
            /\ UNCHANGED nfLock
    /\ StayFill
    /\ lastReleased' = None
    /\ UNCHANGED elsewhere
    /\ UNCHANGED <<capacity, slots, slotLock, next_free, guards, panicked,
                   outstanding>>

\* reserve, lines 113-123: lock the slot, pop it, return the guard; for
\* SharedSlots::insert the guard is filled and the Occupied guard dropped
ReserveLockSlot(t) ==
    /\ pc[t] = "reserve_lock_slot"
    /\ CanLock(key[t])
    /\ LET k == key[t] IN
       IF IsVacant(slots[k])
       THEN /\ next_free' = Pop(k)
            /\ nfLock' = NoThread
            /\ IF op[t] = "insert"
               THEN /\ slots' = [slots EXCEPT ![k] = Occupied(item[t])]
                    /\ BeginDrop(t, k, "Occupied",
                                 Returns(t, "insert", item[t], Some(k)))
                    /\ UNCHANGED guards
               ELSE /\ slots' = slots
                    /\ slotLock' = [slotLock EXCEPT ![k] = t]
                    /\ guards' = [guards EXCEPT ![t][k] = "Reserved"]
                    /\ Return(t, "reserve", Unit, Some(k))
            /\ outstanding' = [outstanding EXCEPT ![k] = TRUE]
            /\ UNCHANGED panicked
       ELSE \* unreachable!(): unwinding drops the SlotRef, whose drop
            \* asks for next_free, which this thread still holds
            /\ panicked' = [panicked EXCEPT ![t] = TRUE]
            /\ BeginDrop(t, k, "SlotRef", NoRet)
            /\ UNCHANGED <<slots, next_free, nfLock, guards, outstanding>>
    /\ StayFill
    /\ UNCHANGED lastReleased
    /\ UNCHANGED <<capacity, elsewhere>>

\* ------------------------------------------------------- get and take
\* get(k), line 127: lock_slot(key)? gives None for a key out of range
GetCall(t, k) ==
    /\ pc[t] = "idle"
    /\ MayRequest(t, k)
    /\ IF InRange(k)
       THEN /\ pc' = [pc EXCEPT ![t] = "lock_slot"]
            /\ op' = [op EXCEPT ![t] = "get"]
            /\ key' = [key EXCEPT ![t] = k]
            /\ ret' = NoRet
            /\ UNCHANGED <<item, dropKind>>
       ELSE Return(t, "get", k, None)
    /\ LeaveFill
    /\ UNCHANGED lastReleased
    /\ UNCHANGED elsewhere
    /\ UNCHANGED <<capacity, slots, slotLock, next_free, nfLock, guards,
                   panicked, outstanding>>

\* take(k), line 135
TakeCall(t, k) ==
    /\ pc[t] = "idle"
    /\ MayRequest(t, k)
    /\ IF InRange(k)
       THEN /\ pc' = [pc EXCEPT ![t] = "lock_slot"]
            /\ op' = [op EXCEPT ![t] = "take"]
            /\ key' = [key EXCEPT ![t] = k]
            /\ ret' = NoRet
            /\ UNCHANGED <<item, dropKind>>
       ELSE Return(t, "take", k, None)
    /\ LeaveFill
    /\ UNCHANGED lastReleased
    /\ UNCHANGED elsewhere
    /\ UNCHANGED <<capacity, slots, slotLock, next_free, nfLock, guards,
                   panicked, outstanding>>

\* get without its test for a Vacant slot (lines 128-130)
LockSlot_GetSkipsVacantTest(t) ==
    /\ pc[t] = "lock_slot"
    /\ CanLock(key[t])
    /\ LET k == key[t] IN
       IF IsVacant(slots[k]) /\ op[t] # "get"
       THEN /\ BeginDrop(t, k, "SlotRef", Returns(t, op[t], k, None))
            /\ UNCHANGED <<slots, guards, outstanding>>
       ELSE IF op[t] = "get"
       THEN /\ slotLock' = [slotLock EXCEPT ![k] = t]
            /\ guards' = [guards EXCEPT ![t][k] = "Occupied"]
            /\ Return(t, "get", k, Some(k))
            /\ UNCHANGED <<slots, outstanding>>
       ELSE /\ slots' = [slots EXCEPT ![k] = Vacant(USIZE_MAX)]
            /\ BeginDrop(t, k, "Reserved",
                         Returns(t, "take", k, Some(slots[k].item)))
            /\ Release(k)
            /\ UNCHANGED guards
    /\ StayFill
    /\ UNCHANGED lastReleased
    /\ UNCHANGED elsewhere
    /\ UNCHANGED <<capacity, next_free, nfLock, panicked>>

\* lock_slot's lock() and the rest of get / take: a Vacant slot gives None
\* and the SlotRef is dropped; get wraps an Occupied slot in a guard; take
\* empties it (Occupied::take) and drops the Reserved guard it gets back
LockSlot(t) ==
    /\ pc[t] = "lock_slot"
    /\ CanLock(key[t])
    /\ LET k == key[t] IN
       IF IsVacant(slots[k])
       THEN /\ BeginDrop(t, k, "SlotRef", Returns(t, op[t], k, None))
            /\ UNCHANGED <<slots, guards, outstanding>>
       ELSE IF op[t] = "get"
       THEN /\ slotLock' = [slotLock EXCEPT ![k] = t]
            /\ guards' = [guards EXCEPT ![t][k] = "Occupied"]
            /\ Return(t, "get", k, Some(k))
            /\ UNCHANGED <<slots, outstanding>>
       ELSE /\ slots' = [slots EXCEPT ![k] = Vacant(USIZE_MAX)]
            /\ BeginDrop(t, k, "Reserved",
                         Returns(t, "take", k, Some(slots[k].item)))
            /\ Release(k)
            /\ UNCHANGED guards
    /\ StayFill
    /\ UNCHANGED lastReleased
    /\ UNCHANGED elsewhere
    /\ UNCHANGED <<capacity, next_free, nfLock, panicked>>

\* ------------------------------------------------------ guard methods
\* Reserved::insert: the slot becomes Occupied(v), the guard Occupied
ReservedInsert(t, k, v) ==
    /\ pc[t] = "idle"
    /\ k \in Keys
    /\ guards[t][k] = "Reserved"
    /\ slots' = [slots EXCEPT ![k] = Occupied(v)]
    /\ guards' = [guards EXCEPT ![t][k] = "Occupied"]
    /\ ret' = Returns(t, "Reserved::insert", v, Some(k))
    /\ StayFill
    /\ UNCHANGED lastReleased
    /\ UNCHANGED elsewhere
    /\ UNCHANGED <<capacity, slotLock, next_free, nfLock, pc, op, key, item,
                   dropKind, panicked, outstanding>>

\* Occupied::take: the slot becomes Vacant { next: usize::MAX }, the guard
\* Reserved; a slot that is not Occupied is unreachable!(), and unwinding
\* drops the SlotRef
OccupiedTake(t, k) ==
    /\ pc[t] = "idle"
    /\ k \in Keys
    /\ guards[t][k] = "Occupied"
    /\ slots' = [slots EXCEPT ![k] = Vacant(USIZE_MAX)]
    /\ IF IsOccupied(slots[k])
       THEN /\ guards' = [guards EXCEPT ![t][k] = "Reserved"]
            /\ ret' = Returns(t, "Occupied::take", k, Some(slots[k].item))
            /\ UNCHANGED <<slotLock, pc, op, key, item, dropKind, panicked>>
       ELSE /\ guards' = [guards EXCEPT ![t][k] = "none"]
            /\ panicked' = [panicked EXCEPT ![t] = TRUE]
            /\ BeginDrop(t, k, "SlotRef", NoRet)
    /\ Release(k)
    /\ LeaveFill
    /\ UNCHANGED lastReleased
    /\ UNCHANGED elsewhere
    /\ UNCHANGED <<capacity, next_free, nfLock>>

\* DerefMut for Occupied: write the stored value through the guard
OccupiedWrite(t, k, v) ==
    /\ pc[t] = "idle"
    /\ k \in Keys
    /\ guards[t][k] = "Occupied"
    /\ IsOccupied(slots[k])
    /\ slots[k].item # v
    /\ slots' = [slots EXCEPT ![k] = Occupied(v)]
    /\ ret' = NoRet
    /\ StayFill
    /\ UNCHANGED lastReleased
    /\ UNCHANGED elsewhere
    /\ UNCHANGED <<capacity, slotLock, next_free, nfLock, pc, op, key, item,
                   dropKind, guards, panicked, outstanding>>

\* ---------------------------------------------------------------- drop
\* a guard goes out of scope (also when a panic unwinds the thread that
\* holds it): SlotRef::drop starts and unlocks the slot
DropGuard(t, k) ==
    /\ pc[t] \in {"idle", "dead"}
    /\ k \in Keys
    /\ guards[t][k] # "none"
    /\ guards' = [guards EXCEPT ![t][k] = "none"]
    /\ BeginDrop(t, k, guards[t][k], NoRet)
    /\ IF guards[t][k] = "Reserved"
       THEN Release(k) /\ LeaveFill
       ELSE UNCHANGED outstanding /\ StayFill
    /\ UNCHANGED lastReleased
    /\ UNCHANGED elsewhere
    /\ UNCHANGED <<capacity, slots, next_free, nfLock, panicked>>

\* SlotRef::drop, line 26: the closure's next_free.lock()
DropLockNf(t) ==
    /\ pc[t] = "drop_lock_nf"
    /\ nfLock = NoThread
    /\ nfLock' = t
    /\ pc' = [pc EXCEPT ![t] = "drop_lock_slot"]
    /\ ret' = NoRet
    /\ StayFill
    /\ UNCHANGED lastReleased
    /\ UNCHANGED elsewhere
    /\ UNCHANGED <<capacity, slots, slotLock, next_free, op, key, item,
                   dropKind, guards, panicked, outstanding>>

\* a push that does not look at the state of the slot
Push_AnySlot(k) ==
    /\ slots' = [slots EXCEPT ![k] = Vacant(next_free)]
    /\ next_free' = k
\* the push of SlotRef::drop, lines 27-32: a Vacant slot gets the old head
\* as its link and its key becomes the head
Push(k) ==
    IF IsVacant(slots[k])
    THEN /\ slots' = [slots EXCEPT ![k] = Vacant(next_free)]
         /\ next_free' = k
    ELSE UNCHANGED <<slots, next_free>>

\* SlotRef::drop, lines 26-33: unlocked() takes the slot's mutex again,
\* the push is made, and both mutexes are released
DropLockSlot(t) ==
    /\ pc[t] = "drop_lock_slot"
    /\ CanLock(key[t])
    /\ Push(key[t])
    /\ nfLock' = NoThread
    /\ pc' = [pc EXCEPT ![t] = IF panicked[t] THEN "dead" ELSE "idle"]
    /\ op' = [op EXCEPT ![t] = "none"]
    /\ key' = [key EXCEPT ![t] = 0]
    /\ dropKind' = [dropKind EXCEPT ![t] = "none"]
    /\ ret' = NoRet
    /\ StayFill
    /\ lastReleased' = IF dropKind[t] = "Reserved" THEN Some(key[t])
                     ELSE lastReleased
    /\ UNCHANGED elsewhere
    /\ UNCHANGED <<capacity, slotLock, guards, panicked, item, outstanding>>

Next ==
    \/ \E t \in Threads : ReserveCall(t)
    \/ \E t \in Threads, v \in Items : InsertCall(t, v)
    \/ \E t \in Threads : ReserveLockNf(t)
    \/ \E t \in Threads : ReserveLockSlot(t)
    \/ \E t \in Threads, k \in 0 .. capacity : GetCall(t, k)
    \/ \E t \in Threads, k \in 0 .. capacity : TakeCall(t, k)
    \/ \E t \in Threads : LockSlot(t)
    \/ \E t \in Threads, k \in Keys, v \in Items : ReservedInsert(t, k, v)
    \/ \E t \in Threads, k \in Keys : OccupiedTake(t, k)
    \/ \E t \in Threads, k \in Keys, v \in Items : OccupiedWrite(t, k, v)
    \/ \E t \in Threads, k \in Keys : DropGuard(t, k)
    \/ \E t \in Threads : DropLockNf(t)
    \/ \E t \in Threads : DropLockSlot(t)

Spec == Init /\ [][Next]_vars

\* ------------------------------------------------- the Window in use
\* a call of Window::insert(i) on a window that has not panicked
WindowInsert(i) ==
    /\ ~winRet.panic
    /\ i \in inserted \/ Cardinality(inserted) < MaxInserted
    /\ LET r == insert(i) IN
          /\ map' = r.map
          /\ first_index' = r.first_index
          /\ winRet' = Outcome("insert", i, r.val, r.panic)
    /\ inserted' = inserted \cup {i}
    /\ increasing' = (increasing /\ \A j \in inserted : j < i)
    /\ UNCHANGED <<N, poolVars, varintVars>>

\* a call of Window::can_insert(i), which takes &self
WindowCanInsert(i) ==
    /\ ~winRet.panic
    /\ winRet' = Outcome("can_insert", i, can_insert(i), FALSE)
    /\ UNCHANGED <<N, map, first_index, inserted, increasing, poolVars,
                   varintVars>>

NextWindow ==
    \/ \E i \in Indices : WindowInsert(i)
    \/ \E i \in Indices : WindowCanInsert(i)

\* a new Window<N>, N in 1 .. MaxWindow; an empty pool and the varint
\* buffers unused
InitWindow == InitPool /\ capacity = 0 /\ InitWindowVars /\ VarintUnused

SpecWindow == InitWindow /\ [][NextWindow]_vars

\* ------------------------------------------------- the varint in use
\* let len = encode_varint(val, &mut buf)
Encode ==
    /\ len = 0
    /\ LET r == encode_varint(val, buf) IN
          /\ buf' = r.buf
          /\ len' = r.len
    /\ UNCHANGED <<val, decoded, poolVars, windowVars>>

\* decode_varint_unchecked(&buf[..len]), as read_varint calls it
DecodeUnchecked ==
    /\ len > 0
    /\ decoded = NotYet
    /\ LET r == decode_varint_unchecked(SubSeq(buf, 1, len)) IN
          decoded' = Decoded("decode_varint_unchecked", r.panic, r.val)
    /\ UNCHANGED <<val, buf, len, poolVars, windowVars>>

\* decode_varint(&buf[..len])
Decode ==
    /\ len > 0
    /\ decoded = NotYet
    /\ LET r == decode_varint(SubSeq(buf, 1, len)) IN
          decoded' = Decoded(IF r.some \/ r.panic THEN "decode_varint"
                             ELSE "decode_varint: None", r.panic, r.val)
    /\ UNCHANGED <<val, buf, len, poolVars, windowVars>>

NextVarint == Encode \/ DecodeUnchecked \/ Decode

\* a value to encode; an empty pool and the window unused
InitVarint == InitPool /\ capacity = 0 /\ WindowUnused /\ InitVarintVars

SpecVarint == InitVarint /\ [][NextVarint]_vars

\* tests::no_deadlock, no_intefere and no_deadlock4: threads that only call
\* reserve, on a pool of capacity 1 or 2, and drop the guards or keep them
InitReserveOnly == Init /\ capacity \in {1, 2}

NextReserveOnly ==
    \/ \E t \in Threads : ReserveCall(t)
    \/ \E t \in Threads : ReserveLockNf(t)
    \/ \E t \in Threads : ReserveLockSlot(t)
    \/ \E t \in Threads, k \in Keys : DropGuard(t, k)
    \/ \E t \in Threads : DropLockNf(t)
    \/ \E t \in Threads : DropLockSlot(t)

\* a thread that waits for a mutex gets it if the mutex is free again and
\* again (parking_lot hands a mutex over fairly in the end); whether a thread
\* makes another call or drops a guard is up to it
FairLocks ==
    \A t \in Threads :
        /\ SF_vars(ReserveLockNf(t))
        /\ SF_vars(ReserveLockSlot(t))
        /\ SF_vars(DropLockNf(t))
        /\ SF_vars(DropLockSlot(t))

SpecReserveOnly == InitReserveOnly /\ [][NextReserveOnly]_vars /\ FairLocks

TypeOK ==
    /\ capacity \in 0 .. MaxCapacity
    /\ DOMAIN slots = Keys
    /\ \A k \in Keys : slotLock[k] \in Threads \cup {NoThread}
    /\ nfLock \in Threads \cup {NoThread}

\* ------------------------------------------------- reading the state
\* the keys met by following next links from key k, at most fuel of them;
\* the walk ends at a key out of range and cannot go on from an Occupied slot
RECURSIVE Walk(_, _)
Walk(k, fuel) ==
    IF fuel = 0 \/ ~InRange(k) THEN <<>>
    ELSE IF IsOccupied(slots[k]) THEN <<k>>
    ELSE <<k>> \o Walk(slots[k].next, fuel - 1)

FreeList == Walk(next_free, capacity + 1)
Visited == {FreeList[i] : i \in DOMAIN FreeList}
NoKeyTwice(w) == \A i, j \in DOMAIN w : i # j => w[i] # w[j]
\* the walk met Vacant slots only, each once, and so ended out of range
EndsOutOfRange(w) ==
    /\ NoKeyTwice(w)
    /\ \A i \in DOMAIN w : IsVacant(slots[w[i]])

HeldBy(k) == {t \in Threads : guards[t][k] # "none"}
Held(k) == HeldBy(k) # {}
HeldReserved(k) == \E t \in Threads : guards[t][k] = "Reserved"

InReserve(t) == pc[t] \in {"reserve_lock_nf", "reserve_lock_slot"}
InDrop(t) == pc[t] \in {"drop_lock_nf", "drop_lock_slot"}

\* ------------------------------------------------------------ claim C1
\* C1: whenever no thread is inside reserve or inside a guard drop, the
\* walk from next_free meets every Vacant slot that no Reserved guard holds,
\* no key twice, and ends at a value >= capacity; every key it does not
\* meet is Occupied or held by a guard.
C1_FreeListIntegrity ==
    (\A t \in Threads : ~InReserve(t) /\ ~InDrop(t)) =>
        /\ EndsOutOfRange(FreeList)
        /\ \A k \in Keys :
              (IsVacant(slots[k]) /\ ~HeldReserved(k)) => k \in Visited
        /\ \A k \in Keys \ Visited : IsOccupied(slots[k]) \/ Held(k)

\* ------------------------------------------------------------ claim C3
\* reserve called again and again by one thread that keeps every guard, in a
\* pool no other thread touches: from head h with the keys in kept locked,
\* the keys returned and how the calls end: "None" when a call finds the head
\* out of range, "blocked" when a call waits for a slot whose guard is kept,
\* "panic" when it finds the slot Occupied
RECURSIVE Drain(_, _)
Drain(h, kept) ==
    IF ~InRange(h) THEN [keys |-> <<>>, end |-> "None"]
    ELSE IF h \in kept THEN [keys |-> <<>>, end |-> "blocked"]
    ELSE IF IsOccupied(slots[h]) THEN [keys |-> <<>>, end |-> "panic"]
    ELSE LET rest == Drain(slots[h].next, kept \cup {h})
         IN  [keys |-> <<h>> \o rest.keys, end |-> rest.end]

\* no call is in progress, no guard is live, every stored value is taken
Drained ==
    /\ \A t \in Threads : pc[t] = "idle"
    /\ \A k \in Keys : ~Held(k) /\ IsVacant(slots[k])

\* C3: once no guard is live and every stored value has been taken, reserve
\* called repeatedly with every guard kept succeeds exactly capacity times,
\* with capacity distinct keys, and then returns None.
C3_NoLostSlots ==
    Drained =>
        LET d == Drain(next_free, {})
        IN  /\ d.end = "None"
            /\ Len(d.keys) = capacity
            /\ NoKeyTwice(d.keys)

\* ------------------------------------------------------------ claim C4
\* the thread that holds the lock thread t is waiting for, or NoThread
WaitsFor(t) ==
    CASE pc[t] \in {"reserve_lock_nf", "drop_lock_nf"} -> nfLock
      [] pc[t] \in {"reserve_lock_slot", "lock_slot", "drop_lock_slot"} ->
            slotLock[key[t]]
      [] OTHER -> NoThread

\* the threads of S wait for locks that other threads of S hold
WaitCycle(S) ==
    /\ S # {}
    /\ \A t \in S : WaitsFor(t) \in S \ {t}

\* C4: no state is reachable in which a set of threads wait forever on the
\* slot locks and the next_free lock held by each other.
C4_NoDeadlock == ~ \E S \in SUBSET Threads : WaitCycle(S)

\* ------------------------------------------------------------ claim C7
\* thread t ends the drop of the plain SlotRef of a get or take that found
\* its slot Vacant and gave None
FailedLookupEnds(t) ==
    /\ pc[t] = "drop_lock_slot"
    /\ dropKind[t] = "SlotRef"
    /\ ~panicked[t]
    /\ pc'[t] = "idle"

\* C7: a get or take that returns None leaves next_free and the state and
\* next link of every slot as they were.
C7_FailedLookupHarmless ==
    [][\A t \in Threads :
          FailedLookupEnds(t) => next_free' = next_free /\ slots' = slots]_vars

\* ------------------------------------------------------------ claim C8
\* every slot is Occupied or held by a live guard
AllTaken == \A k \in Keys : IsOccupied(slots[k]) \/ Held(k)
LiveGuards == {<<t, k>> \in Threads \X Keys : guards[t][k] # "none"}
\* thread t, in reserve, gets the next_free lock and reads the head
ReadsHead(t) == pc[t] = "reserve_lock_nf" /\ pc'[t] # "reserve_lock_nf"

\* C8: the slots that are Occupied or held by a live guard, and the live
\* guards, never number more than capacity; and a reserve (or insert) that
\* reads next_free while all slots are Occupied or held returns None and
\* locks no slot.
C8_CapacityBound ==
    /\ [](Cardinality(LiveGuards) <= capacity)
    /\ [][\A t \in Threads :
             (ReadsHead(t) /\ AllTaken) =>
                 /\ pc'[t] = "idle"
                 /\ ret'.thread = t /\ ret'.val = None
                 /\ slotLock' = slotLock]_vars

\* ----------------------------------------------------------- claim C10
\* thread t ends the drop of a SlotRef that was wrapped in a guard of kind g
DropEnds(t, g) ==
    /\ pc[t] = "drop_lock_slot"
    /\ dropKind[t] = g
    /\ pc'[t] # "drop_lock_slot"
\* the step links key k in front of the free list
Pushes(k) ==
    /\ next_free' = k
    /\ \E t \in Threads : pc[t] = "drop_lock_slot" /\ key[t] = k
                          /\ pc'[t] # "drop_lock_slot"
    /\ slots'[k] = Vacant(next_free)
    /\ IsVacant(slots[k])

\* C10: the drop of an Occupied guard writes neither next_free nor any
\* slot's next link, and a key is linked into the free list only by the
\* drop of a Reserved guard for that key.
C10_OccupiedDropIsNoRelease ==
    [][/\ \A t \in Threads :
             DropEnds(t, "Occupied") =>
                 next_free' = next_free /\ slots' = slots
       /\ \A k \in Keys :
             Pushes(k) =>
                 \E t \in Threads : DropEnds(t, "Reserved") /\ key[t] = k]_vars

\* ------------------------------------------------------------ claim C2
\* the step in which a reserve (or the reserve inside SharedSlots::insert)
\* of thread t returns key k
ReserveReturns(t, k) ==
    /\ pc[t] = "reserve_lock_slot"
    /\ pc'[t] # "reserve_lock_slot"
    /\ ret'.thread = t
    /\ ret'.val = Some(k)

Outstanding == {k \in Keys : outstanding[k]}
\* the threads whose reserve has returned, in the run of tests::threaded
Filled == {t \in called : ~InReserve(t)}

\* C2: while the threads have done nothing but reserve once each and insert,
\* and no more of them than there are slots, no reserve returns None or
\* panics and the keys returned are pairwise distinct (as many keys as
\* calls that returned); and no reserve ever returns a key that an earlier
\* reserve returned and that was not released since.
C2_KeyUniqueness ==
    /\ []((fillOnly /\ Cardinality(called) <= capacity) =>
             /\ ~(ret.op \in {"reserve", "insert"} /\ ret.val = None)
             /\ \A t \in Threads : ~panicked[t]
             /\ Cardinality(Outstanding) = Cardinality(Filled))
    /\ [][\A t \in Threads, k \in Keys :
             ReserveReturns(t, k) => ~outstanding[k]]_vars

\* every thread has reserved and inserted, each under a key of its own
C2_Witness ==
    /\ fillOnly
    /\ called = Threads
    /\ \A t \in Threads : pc[t] = "idle"
    /\ Cardinality(Outstanding) = NumThreads
    /\ \A k \in Outstanding : IsOccupied(slots[k])

\* ------------------------------------------------------------ claim C5
\* C5: threads that only call reserve on a pool of capacity 1 or 2, dropping
\* or keeping the guards: under fair scheduling every reserve call and every
\* guard drop comes to its end, and no reserve panics.
C5_ReserveOnlyTerminates ==
    /\ \A t \in Threads : (pc[t] # "idle") ~> (pc[t] = "idle")
    /\ [](\A t \in Threads : ~panicked[t])

\* one thread waits for next_free while another, inside reserve, holds it
\* and is about to lock the slot
C5_Witness ==
    \E t, u \in Threads :
        /\ pc[t] = "reserve_lock_nf"
        /\ pc[u] = "reserve_lock_slot"
        /\ nfLock = u

\* ------------------------------------------------------------ claim C6
\* the step fixes the value of a get or take
LookupAnswered == ret' # NoRet /\ ret'.op \in {"get", "take"}

\* C6: get(key) and take(key) give None when key is out of range or the
\* slot is Vacant when its lock is acquired, Some exactly when it is
\* Occupied then (get the guard of the key, take the stored item), and no
\* thread panics inside get, take or the drop they end with.
C6_InvalidKeyIsNone ==
    [][/\ LookupAnswered =>
             LET k == ret'.arg IN
             /\ (ret'.val = None) <=> (~InRange(k) \/ IsVacant(slots[k]))
             /\ (ret'.val # None) =>
                   /\ IsOccupied(slots[k])
                   /\ ret'.val = IF ret'.op = "get" THEN Some(k)
                                 ELSE Some(slots[k].item)
       /\ \A t \in Threads :
             (panicked'[t] /\ ~panicked[t]) =>
                 op[t] \notin {"get", "take", "drop"}]_vars

\* a get of a key in range has found the slot Vacant and given None
C6_Witness ==
    /\ ret.op = "get"
    /\ ret.val = None
    /\ InRange(ret.arg)
    /\ IsVacant(slots[ret.arg])

\* ------------------------------------------------------------ claim C9
\* the step fixes the value of a call of thread t as a guard for key k or
\* the item stored under k
Obtains(t, k) ==
    /\ ret'.thread = t
    /\ ret'.val # None
    /\ \/ ret'.op \in {"reserve", "insert"} /\ ret'.val = Some(k)
       \/ ret'.op \in {"get", "take"} /\ ret'.arg = k

\* C9: at most one thread holds a live guard for a key, and it holds the
\* slot's lock; while a guard for key k is live (also across
\* Reserved::insert and Occupied::take) no reserve, insert, get or take
\* gives a guard or a value for k.
C9_GuardExclusivity ==
    /\ [](\A k \in Keys :
             /\ Cardinality(HeldBy(k)) <= 1
             /\ \A t \in HeldBy(k) : slotLock[k] = t)
    /\ [][\A t \in Threads, k \in Keys : Obtains(t, k) => ~Held(k)]_vars

\* a thread holds the guard it got from reserve and filled, and another
\* thread waits in get or take for the same key
C9_Witness ==
    \E t, u \in Threads, k \in Keys :
        /\ t # u
        /\ guards[t][k] = "Occupied"
        /\ outstanding[k]
        /\ pc[u] = "lock_slot"
        /\ key[u] = k

\* ----------------------------------------------------------- claim C11
\* thread t waits for the next_free mutex, inside reserve or a guard drop
WaitsForNf(t) == pc[t] \in {"reserve_lock_nf", "drop_lock_nf"}
\* thread t waits for the mutex of a slot that some thread holds
WaitsForSlot(t) ==
    /\ pc[t] \in {"reserve_lock_slot", "lock_slot", "drop_lock_slot"}
    /\ slotLock[key[t]] # NoThread
\* the key the waiting call of thread t works on: the head a reserve would
\* pop, the key of the guard being dropped
KeyOf(t) == IF pc[t] = "reserve_lock_nf" THEN next_free ELSE key[t]

\* C11: a reserve or a guard drop that waits for next_free never waits for a
\* thread that is itself waiting for the lock of a slot other than the one
\* the reserve would pop or the drop is about: work on one key is not
\* delayed by a guard held on another key.
C11_KeyIndependence ==
    \A u, t \in Threads :
        (t # u /\ WaitsForNf(u) /\ nfLock = t /\ WaitsForSlot(t)) =>
            key[t] = KeyOf(u)

\* ----------------------------------------------------------- claim C12
\* the step fixes Some(k) as the value of SharedSlots::insert(x) or of
\* Reserved::insert(x)
Inserted(k, x) ==
    /\ ret'.op \in {"insert", "Reserved::insert"}
    /\ ret'.arg = x
    /\ ret'.val = Some(k)
\* the step is a take of key k (SharedSlots::take or Occupied::take) that
\* gives the value stored there and leaves the slot Vacant
TakesFrom(k) ==
    /\ ret'.op \in {"take", "Occupied::take"}
    /\ ret'.arg = k
    /\ ret'.val = Some(slots[k].item)
    /\ IsVacant(slots'[k])
\* the step writes the value of slot k through the Occupied guard held on it
WritesThrough(k) ==
    /\ \E t \in Threads : guards[t][k] = "Occupied" /\ slotLock[k] = t
    /\ IsOccupied(slots'[k])
    /\ ret' = NoRet

\* C12: insert(x) that gives Some(k) leaves x under k; a stored value stays
\* as it is until it is written through an Occupied guard for k or taken;
\* get(k) gives the guard of the Occupied slot, which reads that value, as
\* often as it is called; take(k) gives the value and leaves the slot Vacant,
\* after which get(k) and take(k) give None; and when the take (or the drop of
\* a Reserved guard) has ended, k is the head of the free list unless it has
\* been handed out again already.
C12_RoundTrip ==
    [][/\ \A k \in Keys, x \in Items :
             Inserted(k, x) => slots'[k] = Occupied(x)
       /\ \A k \in Keys :
             (IsOccupied(slots[k]) /\ slots'[k] # slots[k]) =>
                 TakesFrom(k) \/ WritesThrough(k)
       /\ \A k \in Keys :
             (LookupAnswered /\ ret'.arg = k) =>
                 IF IsOccupied(slots[k])
                 THEN IF ret'.op = "get"
                      THEN /\ ret'.val = Some(k)
                           /\ guards'[ret'.thread][k] = "Occupied"
                           /\ slots'[k] = slots[k]
                      ELSE TakesFrom(k)
                 ELSE ret'.val = None /\ slots'[k] = slots[k]
       /\ \A t \in Threads :
             DropEnds(t, "Reserved") =>
                 next_free' = key[t] \/ IsOccupied(slots[key[t]])]_vars

\* a take has given the value that was stored under its key
C12_Witness ==
    /\ ret.op = "take"
    /\ ret.val # None
    /\ InRange(ret.arg)
    /\ IsVacant(slots[ret.arg])

\* ----------------------------------------------------------- claim C13
\* C13: once the release of key k has ended (take(k), or the drop of a
\* Reserved guard for k) and until the next reserve or insert reads
\* next_free, with no other release in between, k is the head of the free
\* list and Vacant; the reserve that reads the head then returns the key it
\* read; and neither the release nor that reserve changes another slot.
C13_LastFreedFirst ==
    /\ [](\A k \in Keys :
             lastReleased = Some(k) => next_free = k /\ IsVacant(slots[k]))
    /\ [][/\ \A t \in Threads, k \in Keys :
                ReserveReturns(t, k) =>
                    /\ key[t] = k
                    /\ \A j \in Keys \ {k} : slots'[j] = slots[j]
          /\ \A t \in Threads :
                DropEnds(t, "Reserved") =>
                    \A j \in Keys \ {key[t]} : slots'[j] = slots[j]]_vars

\* ----------------------------------------------------------- claim C14
\* a guard for key k is being dropped and its drop has not made its push yet
InGuardDrop(k) ==
    \E u \in Threads :
        InDrop(u) /\ key[u] = k /\ dropKind[u] \in {"Reserved", "Occupied"}
\* the step in which a reserve (or insert) of thread t reads next_free and
\* returns None
ReserveGivesNone(t) ==
    /\ ReadsHead(t)
    /\ ret'.thread = t
    /\ ret'.val = None

\* C14: a reserve returns None only if, when it reads next_free, every slot
\* is Occupied or held by a guard, or by a guard whose drop has not pushed
\* the key yet.
C14_NoSpuriousExhaustion ==
    [][\A t \in Threads :
          ReserveGivesNone(t) =>
              \A k \in Keys :
                  IsOccupied(slots[k]) \/ Held(k) \/ InGuardDrop(k)]_vars

\* ----------------------------------------------------------- claim C15
\* no operation has been called on the pool since new(capacity)
Fresh == fillOnly /\ called = {}
\* the keys 0, 1, ..., n - 1 in that order
FirstKeys(n) == [i \in 1 .. n |-> i - 1]

\* C15: a new pool has next_free = 0 and slot i = Vacant { next: i + 1 } for
\* every i < capacity, so that reserve called again and again on it gives
\* the keys 0, 1, ..., capacity - 1 in that order and then None (None at
\* once when capacity = 0); and while the threads have done nothing but
\* reserve or insert, with no release, each call that returns a key returns
\* the number of keys handed out before it.
C15_FirstFillOrder ==
    /\ [](Fresh =>
             /\ next_free = 0
             /\ \A i \in Keys : slots[i] = Vacant(i + 1)
             /\ Drain(next_free, {}) =
                    [keys |-> FirstKeys(capacity), end |-> "None"])
    /\ [][\A t \in Threads :
             /\ (fillOnly /\ capacity = 0 /\ ReadsHead(t)) =>
                    ReserveGivesNone(t)
             /\ \A k \in Keys :
                    (fillOnly /\ ReserveReturns(t, k)) =>
                        k = Cardinality(Outstanding)]_vars

\* the last key of a pool of two or more slots has been handed out, in a run
\* of reserve and insert calls only
C15_Witness ==
    /\ fillOnly
    /\ capacity >= 2
    /\ ret.op \in {"reserve", "insert"}
    /\ ret.val = Some(capacity - 1)

\* ----------------------------------------------------------- claim C20
\* the step in which thread t, inside reserve, has locked the slot named by
\* next_free and goes on
ReserveLocksSlot(t) ==
    pc[t] = "reserve_lock_slot" /\ pc'[t] # "reserve_lock_slot"

\* C20: whenever reserve has locked the slot named by next_free the slot is
\* Vacant: the call does not run into unreachable!() and ends with the key
\* of that slot (and a reserve that found next_free out of range with None).
C20_ReserveNeverAborts ==
    [][\A t \in Threads :
          /\ ReserveLocksSlot(t) =>
                /\ IsVacant(slots[key[t]])
                /\ panicked'[t] = panicked[t]
                /\ ret'.thread = t
                /\ ret'.val = Some(key[t])
          /\ (ReadsHead(t) /\ pc'[t] = "idle") => ReserveGivesNone(t)]_vars

\* =========================================================== the Window
\* the indices whose bits are set: what Window::iter yields (lines 14-36)
Contents ==
    UNION {{first_index + w * WORD_BITS + o : o \in map[w]} :
               w \in 0 .. (N - 1)}

\* the step is a call of Window::insert(i)
InsertOf(i) == winRet'.op = "insert" /\ winRet'.arg = i

\* ----------------------------------------------------------- claim C16
\* C16: for every window size and every sequence of Window::insert calls,
\* no call panics, and insert(i) returns false whenever i was passed to an
\* earlier insert call on the window.
C16_DuplicateDetection ==
    [][\A i \in Indices :
          InsertOf(i) =>
              /\ ~winRet'.panic
              /\ i \in inserted => winRet'.val = FALSE]_vars

\* ----------------------------------------------------------- claim C17
\* C17: for every window size, as long as the indices inserted into a new
\* window are strictly increasing every insert returns true without a
\* panic; first_index moves by whole words, and the indices recorded before
\* that are not below the new first_index stay recorded, the new index
\* being the only one added.
C17_IncreasingAccepted ==
    [][\A i \in Indices :
          (InsertOf(i) /\ increasing') =>
              /\ ~winRet'.panic
              /\ winRet'.val = TRUE
              /\ (first_index' - first_index) % WORD_BITS = 0
              /\ Contents' = {j \in Contents : j >= first_index'} \cup {i}]_vars

\* ----------------------------------------------------------- claim C18
\* C18: in every reachable state of a window and for every index i,
\* can_insert(i) leaves the window as it is and gives the value that
\* insert(i) called next returns; and can_insert(i) is false for every i
\* that has been passed to insert.
C18_CanInsertPredictsInsert ==
    /\ [](~winRet.panic =>
             /\ \A i \in Indices :
                   ~insert(i).panic /\ insert(i).val = can_insert(i)
             /\ \A i \in inserted : ~can_insert(i))
    /\ [][winRet'.op = "can_insert" =>
             /\ map' = map
             /\ first_index' = first_index
             /\ winRet'.val = can_insert(winRet'.arg)]_vars

\* =========================================================== the varint
\* ----------------------------------------------------------- claim C19
\* C19: for every value, encode_varint returns a length in 1..=9 that is
\* decode_varint_len of the first byte written, and decoding the bytes
\* written (decode_varint_unchecked, decode_varint) gives the value back
\* without a panic.
C19_VarintRoundTrip ==
    /\ len > 0 => len \in 1 .. 9 /\ len = decode_varint_len(buf[1])
    /\ decoded # NotYet =>
          /\ ~decoded.panic
          /\ decoded.fn \in {"decode_varint_unchecked", "decode_varint"}
          /\ decoded.val = val

\* ----------------------------------------------------------- claim C21
\* thread t holds the next_free mutex between its read and its write of the
\* head: inside reserve after the read, inside a drop before the push
InHeadUpdate(t) ==
    pc[t] \in {"reserve_lock_slot", "drop_lock_slot"} /\ nfLock = t
\* the step in which thread t ends its update of the head
EndsHeadUpdate(t) == InHeadUpdate(t) /\ pc'[t] # pc[t]
\* the link of slot k was written by SharedSlots::new or by a push, not
\* left as usize::MAX by Occupied::take
LinkSet(k) == IsVacant(slots[k]) /\ slots[k].next # USIZE_MAX

\* C21: next_free changes only in the step that ends the head update of the
\* thread that holds it, so no drop changes it between a reserve's read and
\* write and no reserve or other drop between a drop's read and publication;
\* a reserve pops the key that is the head at that moment, so no key pushed
\* meanwhile is lost; and a Vacant slot that a reserve has locked as the head
\* has its next link set.
C21_HeadUpdatesAtomic ==
    [][/\ next_free' # next_free =>
             \E t \in Threads : EndsHeadUpdate(t)
       /\ \A t, u \in Threads :
             (InHeadUpdate(t) /\ u # t) => ~EndsHeadUpdate(u)
       /\ \A t \in Threads :
             ReserveLocksSlot(t) =>
                 /\ key[t] = next_free
                 /\ IsVacant(slots[key[t]]) => LinkSet(key[t])]_vars

\* ----------------------------------------------------------- claim C22
\* the slot of a live guard is in the state the guard's kind stands for
KindMatches(t, k) ==
    /\ guards[t][k] = "Occupied" => IsOccupied(slots[k])
    /\ guards[t][k] = "Reserved" => IsVacant(slots[k])
\* the step is a call of Occupied::take by thread t on its guard for key k
CallsOccupiedTake(t, k) ==
    /\ pc[t] = "idle"
    /\ guards[t][k] = "Occupied"
    /\ slots'[k] = Vacant(USIZE_MAX)
    /\ guards'[t][k] # "Occupied"

\* C22: while a guard is live its slot is in the state of the guard's kind,
\* Occupied for an Occupied guard and Vacant for a Reserved guard, and the key
\* of a Reserved guard is not met on the walk from next_free; so
\* Occupied::take (and deref, deref_mut) never runs into unreachable!(), and
\* Occupied::take gives the stored value and a Reserved guard for the key.
C22_GuardKindMatchesSlot ==
    [][/\ \A t \in Threads, k \in Keys :
             /\ KindMatches(t, k)
             /\ guards[t][k] = "Reserved" => k \notin Visited
       /\ \A t \in Threads, k \in Keys :
             CallsOccupiedTake(t, k) =>
                 /\ panicked'[t] = panicked[t]
                 /\ ret' = Returns(t, "Occupied::take", k, Some(slots[k].item))
                 /\ guards'[t][k] = "Reserved"]_vars

====
